---- MODULE Spec2Model ----
(***************************************************************************)
(* Model of src/code_gen_workflow.py: the WorkflowState object, the        *)
(* decompose_tasks coroutine (worker call, TASK_ block parsing, state      *)
(* update, manifest write) and the main() driver around it.                *)
(*                                                                         *)
(* Text is a sequence of tokens.  "TASK_" stands for the five-character    *)
(* marker prefix, "\n" for the newline, " " for a whitespace character,    *)
(* "1" / "2" for digits and "a" for any other character.                   *)
(***************************************************************************)
EXTENDS Integers, Sequences, FiniteSets, TLC

VARIABLES
    workflow_state,   \* the WorkflowState instance built by main
    files,            \* deps.backend: path -> content
    response_text,    \* decompose_tasks local: result.output
    ret,              \* value decompose_tasks returned to its caller
    pc,               \* position of the control thread
    error,            \* exception that left main, "none" if none
    printed,          \* progress lines printed by decompose_tasks
    run_calls,        \* number of orchestrator.run invocations
    write_result,     \* answer of the last deps.backend.write
    write_calls,      \* number of deps.backend.write invocations
    calls,            \* number of decompose_tasks invocations
    main_result,      \* what main hands to its caller
    review,           \* with_review.main: result.output, <<>> before the run
    review_pc,        \* with_review.main: position of the control thread
    improvement_runs  \* with_review.main: improvement_agent.run invocations

vars == <<workflow_state, files, response_text, ret, pc, error, printed,
          write_result, run_calls, write_calls, calls, main_result,
          review, review_pc, improvement_runs>>

----------------------------------------------------------------------------
(* Bounds of the model *)

MaxLines == 4

MaxReLines == 2

MaxCalls == 2

----------------------------------------------------------------------------
(* Strings *)

NL == "\n"

Whitespace == {" ", NL}

\* str.split("\n"): always at least one piece, "" splits into [""]
RECURSIVE SplitAcc(_, _, _)
SplitAcc(s, cur, acc) ==
    IF s = <<>> THEN Append(acc, cur)
    ELSE IF Head(s) = NL THEN SplitAcc(Tail(s), <<>>, Append(acc, cur))
    ELSE SplitAcc(Tail(s), Append(cur, Head(s)), acc)

SplitLines(s) == SplitAcc(s, <<>>, <<>>)

\* sep.join(parts)
RECURSIVE Join(_, _)
Join(parts, sep) ==
    IF parts = <<>> THEN <<>>
    ELSE IF Len(parts) = 1 THEN parts[1]
    ELSE parts[1] \o sep \o Join(Tail(parts), sep)

RECURSIVE LStrip(_)
LStrip(s) ==
    IF s # <<>> /\ Head(s) \in Whitespace THEN LStrip(Tail(s)) ELSE s

RECURSIVE RStrip(_)
RStrip(s) ==
    IF s # <<>> /\ s[Len(s)] \in Whitespace
    THEN RStrip(SubSeq(s, 1, Len(s) - 1)) ELSE s

\* str.strip()
Strip(s) == RStrip(LStrip(s))

\* line.strip().startswith("TASK_")
IsMarkerLine(line) == Strip(line) # <<>> /\ Head(Strip(line)) = "TASK_"

\* truthiness of line.strip()
IsContentLine(line) == Strip(line) # <<>>

----------------------------------------------------------------------------
(* decompose_tasks: parsing of the decomposition output *)

\* variant: blank lines are kept inside an open block
KeepsLineAny(current_task, line) == current_task # <<>>

\* elif current_task and line.strip(): the line joins the open block
KeepsLine(current_task, line) == current_task # <<>> /\ IsContentLine(line)

\* if current_task: tasks.append("\n".join(current_task))
SaveTask(tasks, current_task) ==
    IF current_task # <<>> THEN Append(tasks, Join(current_task, <<NL>>))
    ELSE tasks

\* variant: the marker line is appended to the open block
StartBlockAppend(current_task, line) == Append(current_task, line)

\* current_task = [line]
StartBlock(current_task, line) == <<line>>

\* the for loop over lines; yields <<tasks, current_task>>
RECURSIVE ParseLoop(_, _, _)
ParseLoop(lines, tasks, current_task) ==
    IF lines = <<>> THEN <<tasks, current_task>>
    ELSE LET line == Head(lines) IN
         IF IsMarkerLine(line)
         THEN ParseLoop(Tail(lines), SaveTask(tasks, current_task),
                        StartBlock(current_task, line))
         ELSE IF KeepsLine(current_task, line)
         THEN ParseLoop(Tail(lines), tasks, Append(current_task, line))
         ELSE ParseLoop(Tail(lines), tasks, current_task)

\* variant: the last block is appended without the emptiness test
AddLastTaskAlways(tasks, current_task) ==
    Append(tasks, Join(current_task, <<NL>>))

\* "Add the last task"
AddLastTask(tasks, current_task) ==
    IF current_task # <<>> THEN Append(tasks, Join(current_task, <<NL>>))
    ELSE tasks

\* response_text -> tasks
ParseTasks(text) ==
    LET r == ParseLoop(SplitLines(text), <<>>, <<>>)
    IN  AddLastTask(r[1], r[2])

\* f"task_{i + 1}" for the range index i
TaskId(i) == <<"task_", i + 1>>

\* variant: range(1, len(tasks))
InitialStatusShort(tasks) ==
    [k \in {TaskId(i) : i \in 1 .. Len(tasks) - 1} |-> "pending"]

\* number written after the marker of a task, 0 if none
MarkerNumber(task) ==
    LET t == Strip(SplitLines(task)[1]) IN
    IF Len(t) >= 2 /\ t[2] = "1" THEN 1
    ELSE IF Len(t) >= 2 /\ t[2] = "2" THEN 2
    ELSE 0

\* variant: the key takes the number written in the marker line
InitialStatusByMarker(tasks) ==
    [k \in {<<"task_", MarkerNumber(tasks[i])>> : i \in 1 .. Len(tasks)}
        |-> "pending"]

\* {f"task_{i + 1}": "pending" for i in range(len(tasks))}
InitialStatus(tasks) ==
    [k \in {TaskId(i) : i \in 0 .. Len(tasks) - 1} |-> "pending"]

\* variant: workflow_state.tasks.extend(tasks)
AssignTasksExtend(old, tasks) == old \o tasks

\* workflow_state.tasks = tasks
AssignTasks(old, tasks) == tasks

\* variant: the manifest is also recorded as a generated file
UpdateStateRecordsManifest(ws, tasks) ==
    [ws EXCEPT !.tasks = AssignTasks(ws.tasks, tasks),
               !.implementation_status = InitialStatus(tasks),
               !.files_generated = Append(ws.files_generated, "/workflow/tasks.txt")]

\* variant: every decomposition is charged to the iteration budget
UpdateStateSpendsBudget(ws, tasks) ==
    [ws EXCEPT !.tasks = AssignTasks(ws.tasks, tasks),
               !.implementation_status = InitialStatus(tasks),
               !.max_iterations = ws.max_iterations - 1]

\* "Update workflow state": the two assignments
UpdateState(ws, tasks) ==
    [ws EXCEPT !.tasks = AssignTasks(ws.tasks, tasks),
               !.implementation_status = InitialStatus(tasks)]

\* variant: " ".join(tasks)
TasksContentInline(tasks) == Join(tasks, <<" ">>)

\* "\n\n".join(tasks)
TasksContent(tasks) == Join(tasks, <<NL, NL>>)

TasksPath == "/workflow/tasks.txt"

----------------------------------------------------------------------------
(* Environment: the request, the worker's output, the backend's answer *)

\* user_request handed to the run
Requests == {<<>>, <<"a">>}

\* lines the decomposition worker may emit
LineKinds ==
    { <<>>, <<" ">>, <<"TASK_", "1">>, <<" ", "TASK_", "2">>,
      <<"a">>, <<"a", "TASK_">> }

\* result.output: up to maxl lines joined by newlines
Outputs(maxl) ==
    { Join(ls, <<NL>>) : ls \in UNION { [1 .. n -> LineKinds] : n \in 1 .. maxl } }

\* deps.backend.write: acknowledges, answers with an error value, or raises
WriteOutcomes == {"ack", "error", "raise"}

\* whole-content replace of one path
BackendWrite(fs, path, content) ==
    [p \in (DOMAIN fs) \cup {path} |-> IF p = path THEN content ELSE fs[p]]

----------------------------------------------------------------------------
(* State machine *)

\* max_iterations: int = Field(default=3), and max_iterations=3 in main
DefaultMaxIterations == 3

\* variables of examples/with_review.py
review_vars == <<review, review_pc, improvement_runs>>

\* variables of code_gen_workflow.py
workflow_vars ==
    <<workflow_state, files, response_text, ret, pc, error, printed,
      write_result, run_calls, write_calls, calls, main_result>>

\* main has not finished
Running == [kind |-> "running", error |-> "none", state |-> <<>>]

\* main falls off its end: None is returned
MainReturn == [kind |-> "returned", error |-> "none", state |-> <<>>]

\* variant: the handler hands the workflow state to the caller with the error
MainRaiseWithState(e) ==
    [kind |-> "raised", error |-> e, state |-> <<workflow_state>>]

\* except Exception as e: print, then raise; nothing but e reaches the caller
MainRaise(e) == [kind |-> "raised", error |-> e, state |-> <<>>]

\* main: deps and workflow_state as constructed
Init ==
    /\ workflow_state \in
         { [user_request |-> r, tasks |-> <<>>, implementation_status |-> <<>>,
            files_generated |-> <<>>, review_feedback |-> <<>>,
            iteration_count |-> 0, max_iterations |-> DefaultMaxIterations]
           : r \in Requests }
    /\ files = <<>>
    /\ response_text = <<>>
    /\ ret = <<>>
    /\ pc = "call_decompose"
    /\ error = "none"
    /\ printed = {}
    /\ write_result = "none"
    /\ run_calls = 0
    /\ write_calls = 0
    /\ calls = 0
    /\ main_result = Running
    /\ review = <<>>
    /\ review_pc = "generate"
    /\ improvement_runs = 0

\* decompose_tasks up to the awaited worker call
DecomposeTasksRun(maxl) ==
    /\ pc = "call_decompose"
    /\ calls' = calls + 1
    /\ run_calls' = run_calls + 1
    /\ \/ \E text \in Outputs(maxl) :
             /\ response_text' = text
             /\ pc' = "dt_parse"
             /\ error' = error
             /\ main_result' = main_result
       \/ /\ response_text' = response_text
          /\ pc' = "aborted"
          /\ error' = "run_error"
          /\ main_result' = MainRaise("run_error")
    /\ UNCHANGED <<workflow_state, files, ret, printed, write_result, write_calls>>
    /\ UNCHANGED review_vars

\* decompose_tasks from the parse to the return
DecomposeTasksFinish ==
    /\ pc = "dt_parse"
    /\ LET tasks == ParseTasks(response_text) IN
       /\ workflow_state' = UpdateState(workflow_state, tasks)
       /\ write_calls' = write_calls + 1
       /\ \E outcome \in WriteOutcomes :
            /\ write_result' = outcome
            /\ files' = IF outcome = "ack"
                        THEN BackendWrite(files, TasksPath, TasksContent(tasks))
                        ELSE files
            /\ \/ /\ outcome # "raise"
                  /\ printed' = printed \cup {"decomposed", "written"}
                  /\ ret' = <<tasks>>
                  /\ pc' = "print_tasks"
                  /\ error' = error
                  /\ main_result' = main_result
               \/ /\ outcome = "raise"
                  /\ printed' = printed
                  /\ ret' = ret
                  /\ pc' = "aborted"
                  /\ error' = "write_error"
                  /\ main_result' = MainRaise("write_error")
    /\ UNCHANGED <<response_text, run_calls, calls>>
    /\ UNCHANGED review_vars

\* main: print the tasks, then the processing call of the orchestrator
MainProcess ==
    /\ pc = "print_tasks"
    /\ run_calls' = run_calls + 1
    /\ \/ /\ pc' = "log_state"
          /\ error' = error
          /\ main_result' = main_result
       \/ /\ pc' = "aborted"
          /\ error' = "run_error"
          /\ main_result' = MainRaise("run_error")
    /\ UNCHANGED <<workflow_state, files, response_text, ret, printed,
                   write_result, write_calls, calls>>
    /\ UNCHANGED review_vars

\* variant: main records the manifest path in files_generated
MainLogStateRecords ==
    /\ pc = "log_state"
    /\ pc' = "done"
    /\ workflow_state' =
         [workflow_state EXCEPT
            !.files_generated = Append(workflow_state.files_generated, TasksPath)]
    /\ main_result' = MainReturn
    /\ UNCHANGED <<files, response_text, ret, error, printed,
                   write_result, run_calls, write_calls, calls>>
    /\ UNCHANGED review_vars

\* main: log the workflow state and finish
MainLogState ==
    /\ pc = "log_state"
    /\ pc' = "done"
    /\ main_result' = MainReturn
    /\ UNCHANGED <<workflow_state, files, response_text, ret, error, printed,
                   write_result, run_calls, write_calls, calls>>
    /\ UNCHANGED review_vars

\* a caller invoking decompose_tasks again on the same workflow_state
Redecompose ==
    /\ pc = "print_tasks"
    /\ calls < MaxCalls
    /\ pc' = "call_decompose"
    /\ response_text' = <<>>
    /\ ret' = <<>>
    /\ UNCHANGED <<workflow_state, files, error, printed, write_result,
                   run_calls, write_calls, calls, main_result>>
    /\ UNCHANGED review_vars

Next ==
    \/ DecomposeTasksRun(MaxLines)
    \/ DecomposeTasksFinish
    \/ MainProcess
    \/ MainLogState

Spec == Init /\ [][Next]_vars

NextRe ==
    \/ DecomposeTasksRun(MaxReLines)
    \/ DecomposeTasksFinish
    \/ Redecompose
    \/ MainProcess
    \/ MainLogState

SpecRe == Init /\ [][NextRe]_vars

----------------------------------------------------------------------------
(* examples/with_review.py: generate with a structured review, then one    *)
(* improvement pass if the review asks for it                              *)

\* overall_score: int  # 1-10
MinScore == 1

MaxScore == 10

\* a list field of CodeReview: empty or holding one finding
IssueLists == {<<>>, <<"i">>}

\* the CodeReview values the reviewing agent may return
Reviews ==
    [files_created : IssueLists, security_issues : IssueLists,
     performance_issues : IssueLists, style_issues : IssueLists,
     recommendations : IssueLists, overall_score : MinScore .. MaxScore,
     ready_for_production : BOOLEAN]

\* variant: a high score also stops the improvement pass
NeedsImprovementBelowScore(r) ==
    ~r.ready_for_production /\ r.overall_score < 8

\* if not review.ready_for_production
NeedsImprovement(r) == ~r.ready_for_production

\* Step 1: agent.run with output_type=CodeReview; review = result.output
ReviewGenerate ==
    /\ review_pc = "generate"
    /\ \/ \E r \in Reviews :
             /\ review' = <<r>>
             /\ review_pc' = "decide"
       \/ /\ review' = review
          /\ review_pc' = "aborted"
    /\ UNCHANGED improvement_runs
    /\ UNCHANGED workflow_vars

\* print the review; Step 2: improvement_agent.run unless ready
ReviewDecide ==
    /\ review_pc = "decide"
    /\ IF NeedsImprovement(review[1])
       THEN /\ improvement_runs' = improvement_runs + 1
            /\ \/ review_pc' = "final"
               \/ review_pc' = "aborted"
       ELSE /\ improvement_runs' = improvement_runs
            /\ review_pc' = "final"
    /\ UNCHANGED review
    /\ UNCHANGED workflow_vars

\* list the final files
ReviewFinal ==
    /\ review_pc = "final"
    /\ review_pc' = "done"
    /\ UNCHANGED <<review, improvement_runs>>
    /\ UNCHANGED workflow_vars

NextReview ==
    \/ ReviewGenerate
    \/ ReviewDecide
    \/ ReviewFinal

SpecReview == Init /\ [][NextReview]_vars

----------------------------------------------------------------------------
(* Vocabulary of the properties *)

ws_tasks == workflow_state.tasks

ws_status == workflow_state.implementation_status

\* the last decompose_tasks call has returned to its caller
Returned == ret # <<>>

OutputLines == SplitLines(response_text)

MarkerPositions == {i \in 1 .. Len(OutputLines) : IsMarkerLine(OutputLines[i])}

\* position of the k-th marker line of the output
NthMarker(k) ==
    CHOOSE i \in MarkerPositions :
        Cardinality({j \in MarkerPositions : j < i}) = k - 1

\* last line of the k-th block: the line before the next marker, or the end
BlockEnd(k) ==
    IF k = Cardinality(MarkerPositions) THEN Len(OutputLines)
    ELSE NthMarker(k + 1) - 1

\* s can be obtained from t by deleting elements
RECURSIVE IsSubseq(_, _)
IsSubseq(s, t) ==
    IF s = <<>> THEN TRUE
    ELSE IF t = <<>> THEN FALSE
    ELSE IF Head(s) = Head(t) THEN IsSubseq(Tail(s), Tail(t))
    ELSE IsSubseq(s, Tail(t))

\* position of the last non-blank line of the k-th block
LastContent(k) ==
    CHOOSE i \in NthMarker(k) .. BlockEnd(k) :
        /\ IsContentLine(OutputLines[i])
        /\ \A j \in (i + 1) .. BlockEnd(k) : ~IsContentLine(OutputLines[j])

Statuses == {"pending", "in_progress", "done", "failed"}

Text(ls) == Join(ls, <<NL>>)

----------------------------------------------------------------------------
(* C1: after every decompose_tasks call that returns, in any sequence of   *)
(* calls on the same state, implementation_status has as many entries as   *)
(* tasks has elements.                                                     *)
C1_StatusLenEqualsTasksLen ==
    Returned => Cardinality(DOMAIN ws_status) = Len(ws_tasks)

C1_Witness ==
    /\ Returned
    /\ calls = 2
    /\ Len(ws_tasks) = 2
    /\ Cardinality(DOMAIN ws_status) = 2

(* C2: decompose_tasks yields one task per marker line, in marker order;   *)
(* each task starts with its own marker line and is otherwise made of      *)
(* lines of its own block (between its marker and the next marker or the   *)
(* end), in their original order.                                          *)
C2_OneTaskPerMarker ==
    Returned =>
        /\ Len(ws_tasks) = Cardinality(MarkerPositions)
        /\ \A k \in 1 .. Len(ws_tasks) :
             LET tl == SplitLines(ws_tasks[k]) IN
             /\ tl[1] = OutputLines[NthMarker(k)]
             /\ IsSubseq(Tail(tl),
                         SubSeq(OutputLines, NthMarker(k) + 1, BlockEnd(k)))

C2_Witness ==
    /\ Returned
    /\ response_text =
         Text(<< <<"TASK_", "1">>, <<"a">>, <<" ", "TASK_", "2">>, <<"a", "TASK_">> >>)
    /\ ws_tasks = << Text(<< <<"TASK_", "1">>, <<"a">> >>),
                     Text(<< <<" ", "TASK_", "2">>, <<"a", "TASK_">> >>) >>

(* C3: after decompose_tasks returns with n tasks the keys of              *)
(* implementation_status are exactly task_1 .. task_n, by position and     *)
(* whatever number the marker line shows, all mapped to "pending"; no      *)
(* status outside pending, in_progress, done, failed is ever stored.       *)
C3_PositionalPendingKeys ==
    /\ \A k \in DOMAIN ws_status : ws_status[k] \in Statuses
    /\ Returned =>
        /\ DOMAIN ws_status = {<<"task_", i>> : i \in 1 .. Len(ws_tasks)}
        /\ \A k \in DOMAIN ws_status : ws_status[k] = "pending"

C3_Witness ==
    /\ Returned
    /\ ws_tasks = << <<" ", "TASK_", "2">>, <<"TASK_", "1">> >>
    /\ DOMAIN ws_status = {<<"task_", 1>>, <<"task_", 2>>}

(* C4 as stated: a task keeps the blank lines that lie between non-empty   *)
(* lines of its block and drops the blank lines at the end of the block,   *)
(* so it spans every line from its marker to the last non-empty line of    *)
(* the block.                                                              *)
C4_InteriorBlanksKept ==
    Returned =>
        \A k \in 1 .. Cardinality(MarkerPositions) :
            /\ k <= Len(ws_tasks)
            /\ SplitLines(ws_tasks[k]) =
                 SubSeq(OutputLines, NthMarker(k), LastContent(k))

(* C4 amended: a task holds exactly the non-blank lines of its block, in   *)
(* order; every blank or whitespace-only line is dropped, between two      *)
(* non-empty lines of the block as well as before the next marker or at    *)
(* the end of the input.                                                   *)
C4_AllBlanksDropped ==
    Returned =>
        \A k \in 1 .. Cardinality(MarkerPositions) :
            /\ k <= Len(ws_tasks)
            /\ SplitLines(ws_tasks[k]) =
                 SelectSeq(SubSeq(OutputLines, NthMarker(k), BlockEnd(k)),
                           IsContentLine)

C4_Witness ==
    /\ Returned
    /\ response_text = Text(<< <<"TASK_", "1">>, <<>>, <<"a">>, <<" ">> >>)
    /\ ws_tasks = << Text(<< <<"TASK_", "1">>, <<"a">> >>) >>

(* C5: an output without marker lines (the empty output included) does     *)
(* not make decompose_tasks raise: it returns the empty list, tasks is []  *)
(* and implementation_status is {}, and main goes on to its next step.     *)
C5_NoTasksExtracted ==
    (calls > 0 /\ pc # "dt_parse" /\ MarkerPositions = {}
        /\ write_result \in {"ack", "error"}) =>
        /\ ret = << <<>> >>
        /\ ws_tasks = <<>>
        /\ DOMAIN ws_status = {}
        /\ pc = "aborted" => error = "run_error" /\ run_calls = 2

C5_Witness ==
    /\ pc = "done"
    /\ error = "none"
    /\ response_text = Text(<< <<"a">>, <<>>, <<"a", "TASK_">> >>)
    /\ ret = << <<>> >>
    /\ ws_tasks = <<>>
    /\ run_calls = 2

\* the manifest path as a read through the backend observes it
ManifestRead == IF TasksPath \in DOMAIN files THEN <<files[TasksPath]>> ELSE <<>>

\* start of the k-th block in the concatenation of blocks with one blank
\* line (two newlines) between consecutive blocks
RECURSIVE BlockStart(_, _)
BlockStart(tasks, k) ==
    IF k = 1 THEN 1
    ELSE BlockStart(tasks, k - 1) + Len(tasks[k - 1]) + 2

\* m is the concatenation of the blocks, in order, one blank line between
IsBlocksManifest(m, tasks) ==
    IF tasks = <<>> THEN m = <<>>
    ELSE /\ Len(m) = BlockStart(tasks, Len(tasks)) + Len(tasks[Len(tasks)]) - 1
         /\ \A k \in 1 .. Len(tasks) :
              SubSeq(m, BlockStart(tasks, k),
                     BlockStart(tasks, k) + Len(tasks[k]) - 1) = tasks[k]
         /\ \A k \in 2 .. Len(tasks) :
              /\ m[BlockStart(tasks, k) - 2] = NL
              /\ m[BlockStart(tasks, k) - 1] = NL

(* C6: after decompose_tasks returns, reading /workflow/tasks.txt through  *)
(* the backend yields exactly the blocks of workflow_state.tasks in task   *)
(* order, one blank line between consecutive blocks, with nothing left of  *)
(* an earlier manifest.                                                    *)
C6_ManifestIsTaskBlocks ==
    Returned =>
        /\ ManifestRead # <<>>
        /\ IsBlocksManifest(ManifestRead[1], ws_tasks)

\* the same, for the calls whose write the backend acknowledged
ManifestIsTaskBlocksWhenAcknowledged ==
    (Returned /\ write_result = "ack") =>
        /\ ManifestRead # <<>>
        /\ IsBlocksManifest(ManifestRead[1], ws_tasks)

(* C7: when the backend write of the manifest fails, the failure is        *)
(* reported, the run is not reported as having written the manifest, and   *)
(* tasks and implementation_status keep the whole decomposition result.    *)
C7_WriteFailureReported ==
    write_result \in {"error", "raise"} =>
        /\ Len(ws_tasks) = Cardinality(MarkerPositions)
        /\ Cardinality(DOMAIN ws_status) = Len(ws_tasks)
        /\ \A k \in DOMAIN ws_status : ws_status[k] = "pending"
        /\ error = "write_error"
        /\ "written" \notin printed

\* the in-memory half of C7 alone
TasksSurviveWriteFailure ==
    write_result \in {"error", "raise"} =>
        /\ Len(ws_tasks) = Cardinality(MarkerPositions)
        /\ Cardinality(DOMAIN ws_status) = Len(ws_tasks)
        /\ \A k \in DOMAIN ws_status : ws_status[k] = "pending"

(* C8: an empty request is rejected at entry: with an empty user_request   *)
(* no orchestrator.run call and no backend write happens and the workflow  *)
(* state does not change.                                                  *)
C8_EmptyRequestRejected ==
    workflow_state.user_request = <<>> =>
        /\ run_calls = 0
        /\ write_calls = 0
        /\ ws_tasks = <<>>
        /\ DOMAIN ws_status = {}

IsPrefix(s, t) == Len(s) <= Len(t) /\ SubSeq(t, 1, Len(s)) = s

C11_ReadyFlagAloneGates ==
    (review # <<>> /\ review_pc # "decide") =>
        /\ improvement_runs \in {0, 1}
        /\ (improvement_runs = 1) <=> ~review[1].ready_for_production

C11_Witness ==
    /\ review_pc = "done"
    /\ review # <<>>
    /\ ~review[1].ready_for_production
    /\ review[1].overall_score = 9
    /\ improvement_runs = 1

\* the other half of the case: ready with a low score, no improvement pass
ReadyLowScoreNoImprovement ==
    /\ review_pc = "done"
    /\ review # <<>>
    /\ review[1].ready_for_production
    /\ review[1].overall_score = 1
    /\ improvement_runs = 0

\* the worker call of decompose_tasks raised and the exception left main
DecompositionWorkerFailed ==
    /\ main_result.kind = "raised"
    /\ main_result.error = "run_error"
    /\ ret = <<>>

\* nothing happened after the failed worker call
AbortedAtDecomposition ==
    /\ pc = "aborted"
    /\ error = "run_error"
    /\ run_calls = 1
    /\ write_calls = 0
    /\ files = <<>>
    /\ printed = {}
    /\ ws_tasks = <<>>
    /\ DOMAIN ws_status = {}

C13_IterationWithinCeiling ==
    /\ workflow_state.iteration_count >= 0
    /\ workflow_state.iteration_count <= workflow_state.max_iterations
    /\ workflow_state.max_iterations = DefaultMaxIterations

C13_Witness ==
    /\ pc = "done"
    /\ Len(ws_tasks) = 2
    /\ workflow_state.iteration_count = 0
    /\ workflow_state.max_iterations = 3

\* the fields of the workflow state other than tasks and
\* implementation_status
OtherFields(ws) ==
    <<ws.user_request, ws.files_generated, ws.review_feedback,
      ws.iteration_count, ws.max_iterations>>

(* C14: a decompose_tasks call changes only tasks and                      *)
(* implementation_status: user_request, files_generated, review_feedback,  *)
(* iteration_count and max_iterations keep their values over every step    *)
(* of the call, and the manifest path is not entered in files_generated.   *)
C14_DecomposeChangesOnlyTasksAndStatus ==
    [][(pc \in {"call_decompose", "dt_parse"} =>
          /\ OtherFields(workflow_state') = OtherFields(workflow_state)
          /\ \A i \in 1 .. Len(workflow_state'.files_generated) :
                workflow_state'.files_generated[i] # TasksPath)]_vars

C14_Witness ==
    /\ Returned
    /\ write_result = "ack"
    /\ ManifestRead # <<>>
    /\ Len(ws_tasks) = 2
    /\ OtherFields(workflow_state) = << <<"a">>, <<>>, <<>>, 0, 3 >>

(* C15: parsing the manifest that decompose_tasks persists (the parsed     *)
(* tasks joined by a blank line) gives the same task list as parsing the   *)
(* decomposition output itself, so the manifest is a fixed point of        *)
(* parse-then-render.                                                      *)
C15_ManifestRoundTrip ==
    Returned =>
        LET parsed == ParseTasks(response_text)
            manifest == TasksContent(parsed)
        IN  /\ ParseTasks(manifest) = parsed
            /\ TasksContent(ParseTasks(manifest)) = manifest
            /\ write_result = "ack" =>
                 /\ ManifestRead = <<manifest>>
                 /\ ParseTasks(ManifestRead[1]) = ws_tasks

C15_Witness ==
    /\ Returned
    /\ write_result = "ack"
    /\ response_text =
         Text(<< <<"TASK_", "1">>, <<" ">>, <<"a">>, <<" ", "TASK_", "2">> >>)
    /\ ManifestRead =
         << <<"TASK_", "1", NL, "a", NL, NL, " ", "TASK_", "2">> >>
    /\ ws_tasks = << <<"TASK_", "1", NL, "a">>, <<" ", "TASK_", "2">> >>

====
